---- MODULE Spec2Model ----
(***************************************************************************)
(* A model of src/tools/unix_c.c of Liquidsoap: the OCaml primitives       *)
(* liquidsoap_set_locale, liquidsoap_get_timezone,                         *)
(* liquidsoap_get_timezone_by_name and liquidsoap_mktime, together with    *)
(* the process-wide C library state they read and write (the environment,  *)
(* the live locale, the timezone variables) and the other code of the      *)
(* process that shares that state.                                         *)
(***************************************************************************)
EXTENDS Integers, Sequences, FiniteSets, TLC

VARIABLES
  env,          \* the process environment: variable name -> value, or Unset
  locale,       \* the live locale: category -> locale name
  localeForced, \* liquidsoap_set_locale has returned at least once
  since,        \* what other code did since liquidsoap_set_locale last returned
  tzconf,       \* the system's timezone configuration (TZ / /etc/localtime)
  timezone,     \* libc's global `timezone`
  tzname,       \* libc's global `tzname[2]`
  tzrule,       \* the rules libc has loaded (what tzset last read)
  lastDst,      \* libc's guess where tm_isdst < 0 leaves two answers:
                \* whether the last mktime resolved to summer time
  dstHour,      \* the platform takes tm_isdst > 0 as an hour ahead even
                \* where the zone has no daylight rule (glibc does)
  timeBits,     \* the width of the platform's time_t
  mk_in,        \* the OCaml value _tm of the running/last liquidsoap_mktime
  tm_arg,       \* the struct tm handed to mktime by that call
  time_res,     \* the C local `time` of that call
  attempts,     \* calls of mktime made by that call
  ret,          \* what the last primitive gave its caller, not yet consumed
  held          \* a pair of names the caller kept from an earlier call

vars == <<env, locale, localeForced, since, tzconf, timezone, tzname, tzrule,
          lastDst, dstHour, timeBits, mk_in, tm_arg, time_res, attempts, ret, held>>

localeVars == <<env, locale, localeForced, since>>
tzVars == <<tzconf, timezone, tzname, tzrule>>
platformVars == <<dstHour, timeBits>>
mktimeVars == <<mk_in, tm_arg, time_res, attempts>>

----------------------------------------------------------------------------
(* OCaml values as the runtime represents them.                            *)

\* Val_int / Val_long: an immediate is the tagged word 2n+1.
Val_int(n) == [k |-> "imm", w |-> 2 * n + 1]

\* Int_val / Long_val: the word shifted right by one (arithmetically).
Int_val(v) == (v.w - 1) \div 2

\* Bool_val is Int_val: Val_false is Val_int(0), Val_true is Val_int(1).
Bool_val(v) == Int_val(v)

Val_unit == Val_int(0)
Val_bool(b) == Val_int(IF b THEN 1 ELSE 0)

\* A block and its fields (Field is 0-based in C).
Block(fs) == [k |-> "blk", f |-> fs]
Field(v, i) == v.f[i + 1]

\* caml_copy_string: a fresh OCaml string holding the bytes read now.
caml_copy_string(s) == [k |-> "str", s |-> s]

\* caml_copy_double of (double) time.
caml_copy_double(t) == [k |-> "dbl", d |-> t]

\* unix_error(code, fn, Nothing) raises Unix_error(code, fn, "").
Nothing == ""
unix_error(code, fn, arg) == [k |-> "exn", code |-> code, fn |-> fn, arg |-> arg]

\* No call has a result pending with the caller.
NoRet == [k |-> "none"]

----------------------------------------------------------------------------
(* The environment and the locale (setenv, setlocale of the C library).    *)

Unset == "(unset)"
NullArg == "(null)"

Categories == {"LC_CTYPE", "LC_NUMERIC"}
EnvNames == Categories \cup {"LANG", "LC_ALL"}

\* The locales installed on the host; any other name makes setlocale fail.
Installed == {"C", "fr_FR"}
EnvValues == {Unset, "", "C", "fr_FR", "xx_XX"}
LocaleArgs == {NullArg, "", "C", "fr_FR", "xx_XX"}

\* setenv(name, value, 1)
setenv(e, name, value) == [e EXCEPT ![name] = value]

IsSet(e, name) == e[name] # Unset /\ e[name] # ""

\* The name setlocale(cat, "") takes from the environment for one category.
EnvLocale(e, cat) ==
  IF IsSet(e, "LC_ALL") THEN e["LC_ALL"]
  ELSE IF IsSet(e, cat) THEN e[cat]
  ELSE IF IsSet(e, "LANG") THEN e["LANG"]
  ELSE "C"

CatsOf(category) == IF category = "LC_ALL" THEN Categories ELSE {category}

\* setlocale(category, name): the live locale after the call.  A null name
\* only queries; an unknown name fails and changes nothing.
setlocale(l, e, category, name) ==
  LET want(c) == IF name = "" THEN EnvLocale(e, c) ELSE name IN
  IF name = NullArg THEN l
  ELSE IF \E c \in CatsOf(category) : want(c) \notin Installed THEN l
  ELSE [c \in Categories |-> IF c \in CatsOf(category) THEN want(c) ELSE l[c]]

\* A slip: LC_ALL is left as inherited.
liquidsoap_set_locale_env_lang(e) == setenv(e, "LANG", "C")

\* liquidsoap_set_locale: both variables first, then the live locale.
liquidsoap_set_locale_env(e) == setenv(setenv(e, "LANG", "C"), "LC_ALL", "C")

\* A slip: only the numeric category is set.
liquidsoap_set_locale_numeric(l, e) == setlocale(l, e, "LC_NUMERIC", "C")

\* setlocale (LC_ALL, "C")
liquidsoap_set_locale_live(l, e) == setlocale(l, e, "LC_ALL", "C")

liquidsoap_set_locale ==
  /\ ret = NoRet
  /\ env' = liquidsoap_set_locale_env(env)
  /\ locale' = liquidsoap_set_locale_live(locale, env')
  /\ localeForced' = TRUE
  /\ since' = {}
  /\ ret' = Val_unit
  /\ UNCHANGED <<tzVars, platformVars, lastDst, mktimeVars, held>>

\* Other code of the process calls setlocale.
OtherSetlocale ==
  /\ ret = NoRet
  /\ \E category \in Categories \cup {"LC_ALL"}, name \in LocaleArgs :
    /\ locale' = setlocale(locale, env, category, name)
    /\ since' = since \cup {IF name = NullArg THEN "query"
                             ELSE IF name = "" THEN "reread" ELSE "named"}
    /\ UNCHANGED <<env, localeForced, tzVars, platformVars, lastDst, mktimeVars, ret, held>>

\* Other code of the process changes a locale variable of the environment.
OtherSetenv ==
  /\ ret = NoRet
  /\ \E name \in EnvNames, value \in EnvValues :
    /\ env[name] # value
    /\ env' = setenv(env, name, value)
    /\ since' = since \cup {"setenv"}
    /\ UNCHANGED <<locale, localeForced, tzVars, platformVars, lastDst, mktimeVars, ret, held>>

\* The caller takes the result of the last primitive.
Consume ==
  /\ ret # NoRet
  /\ ret' = NoRet
  /\ held' = IF ret.k = "blk" THEN ret ELSE held
  /\ mk_in' = NoRet
  /\ tm_arg' = NoRet
  /\ time_res' = NoRet
  /\ attempts' = 0
  /\ UNCHANGED <<localeVars, tzVars, platformVars, lastDst>>

----------------------------------------------------------------------------
(* The timezone state of the C library (tzset, timezone, tzname).          *)

\* The configurations the host may be given, as POSIX TZ values.
ZoneUTC == "UTC0"
ZoneEET == "EET-2"
ZoneEST == "EST5"
ZoneCET == "CET-1CEST,J91/2,J274/3"
Zones == {ZoneUTC, ZoneEET, ZoneEST, ZoneCET}

\* What tzset reads from a configuration: the two abbreviations, the
\* standard offset in seconds west of UTC, and whether a daylight rule
\* exists (summer time is one hour ahead, from 1 April 02:00 standard time
\* to 1 October 02:00 standard time).
Zone(z) ==
  CASE z = ZoneUTC -> [std |-> "UTC", dst |-> "UTC", west |-> 0, hasDst |-> FALSE]
    [] z = ZoneEET -> [std |-> "EET", dst |-> "EET", west |-> -7200, hasDst |-> FALSE]
    [] z = ZoneEST -> [std |-> "EST", dst |-> "EST", west |-> 18000, hasDst |-> FALSE]
    [] z = ZoneCET -> [std |-> "CET", dst |-> "CEST", west |-> -3600, hasDst |-> TRUE]

\* Before the first tzset the library holds its built-in defaults.
Startup == "(startup)"
StartupTimezone == Zone(ZoneUTC).west
StartupTzname == <<"GMT", "GMT">>

\* tzset(): the three globals after the call.
tzset_timezone(conf) == Zone(conf).west
tzset_tzname(conf) == <<Zone(conf).std, Zone(conf).dst>>
tzset_rule(conf) == conf

tzset ==
  /\ timezone' = tzset_timezone(tzconf)
  /\ tzname' = tzset_tzname(tzconf)
  /\ tzrule' = tzset_rule(tzconf)

\* The administrator (or other code, through TZ) reconfigures the host.
ChangeTimezone ==
  /\ ret = NoRet
  /\ \E z \in Zones :
    /\ z # tzconf
    /\ tzconf' = z
    /\ UNCHANGED <<localeVars, timezone, tzname, tzrule, platformVars, lastDst,
                   mktimeVars, ret, held>>

\* A slip: the global is read without the refresh.
liquidsoap_get_timezone_stale ==
  /\ ret = NoRet
  /\ ret' = Val_int(timezone)
  /\ UNCHANGED <<localeVars, tzVars, platformVars, lastDst, mktimeVars, held>>

\* liquidsoap_get_timezone: tzset(), then Val_long(timezone).
liquidsoap_get_timezone ==
  /\ ret = NoRet
  /\ tzset
  /\ ret' = Val_int(timezone')
  /\ UNCHANGED <<localeVars, tzconf, platformVars, lastDst, mktimeVars, held>>

\* What the caller reads through a string of a returned tuple.
ReadString(v) == IF v.k = "str" THEN v.s ELSE tzname[v.i]
ReadPair(p) == <<ReadString(Field(p, 0)), ReadString(Field(p, 1))>>

\* A slip: the tuple points into libc's buffers instead of copying them.
tzname_tuple_alias(names) == Block(<<[k |-> "ptr", i |-> 1], [k |-> "ptr", i |-> 2]>>)

\* The tuple built by liquidsoap_get_timezone_by_name from tzname.
tzname_tuple(names) ==
  Block(<<caml_copy_string(names[1]), caml_copy_string(names[2])>>)

\* liquidsoap_get_timezone_by_name: tzset(), then the tuple of copies.
liquidsoap_get_timezone_by_name ==
  /\ ret = NoRet
  /\ tzset
  /\ ret' = tzname_tuple(tzname')
  /\ UNCHANGED <<localeVars, tzconf, platformVars, lastDst, mktimeVars, held>>

\* Other code of the process refreshes the library's timezone state.
OtherTzset ==
  /\ ret = NoRet
  /\ tzrule # tzconf
  /\ tzset
  /\ UNCHANGED <<localeVars, tzconf, platformVars, lastDst, mktimeVars, ret, held>>

----------------------------------------------------------------------------
(* Calendar arithmetic of the C library's mktime.                          *)

\* A time_t as whole days and seconds of the day since the epoch, so that
\* values beyond 32 bits stay exact.
TimeT(day, sec) == [d |-> day + sec \div 86400, s |-> sec % 86400]
MinusOne == TimeT(0, -1)
Before(a, b) == a.d < b.d \/ (a.d = b.d /\ a.s < b.s)

IsLeap(y) == (y % 4 = 0 /\ y % 100 # 0) \/ y % 400 = 0
LeapsBefore(y) == (y - 1) \div 4 - (y - 1) \div 100 + (y - 1) \div 400
DaysBeforeYear(y) == 365 * (y - 1970) + LeapsBefore(y) - LeapsBefore(1970)
CumulativeDays == <<0, 31, 59, 90, 120, 151, 181, 212, 243, 273, 304, 334>>
DaysBeforeMonth(y, m) ==
  CumulativeDays[m + 1] + (IF m >= 2 /\ IsLeap(y) THEN 1 ELSE 0)
DaysInMonth(y, m) ==
  IF m = 11 THEN 31 ELSE DaysBeforeMonth(y, m + 1) - DaysBeforeMonth(y, m)

\* The day number of a struct tm whose fields may lie out of range.
DayNumber(tm) ==
  LET y == 1900 + tm.tm_year + tm.tm_mon \div 12
      m == tm.tm_mon % 12
  IN DaysBeforeYear(y) + DaysBeforeMonth(y, m) + tm.tm_mday - 1

SecondOfDay(tm) == tm.tm_hour * 3600 + tm.tm_min * 60 + tm.tm_sec

\* The year a day number falls in.
RECURSIVE YearFrom(_, _)
YearFrom(y, day) == IF DaysBeforeYear(y + 1) <= day THEN YearFrom(y + 1, day) ELSE y
YearOfDay(day) ==
  YearFrom(1970 + (IF day >= 0 THEN day \div 366 ELSE day \div 365 - 1), day)

\* Whether summer time is in force at an instant, under a zone's rule
\* (glibc applies a TZ rule to the years from 1970 on).
InDst(t, z) ==
  LET lst == TimeT(t.d, t.s - z.west)
      y == YearOfDay(lst.d)
      start == TimeT(DaysBeforeYear(y) + DaysBeforeMonth(y, 3), 7200)
      end == TimeT(DaysBeforeYear(y) + DaysBeforeMonth(y, 9), 7200)
  IN z.hasDst /\ y >= 1970 /\ ~Before(lst, start) /\ Before(lst, end)

\* Whether the platform's time_t can hold an instant.
Representable(t, bits) ==
  \/ bits = 64
  \/ /\ ~Before(t, TimeT(-24856, 74752))
     /\ ~Before(TimeT(24855, 11647), t)

\* The instant mktime(&tm) finds under the loaded rule: the fields are local
\* time, tm_isdst says which offset applies (negative: the platform finds
\* out, and where the hour occurs twice it takes the one its guess points
\* at).  A result time_t cannot hold is reported as (time_t)-1.
mktime_resolve(tm, rule, guess, hour) ==
  LET z == Zone(rule)
      stdT == TimeT(DayNumber(tm), SecondOfDay(tm) + z.west)
      dstT == TimeT(DayNumber(tm), SecondOfDay(tm) + z.west - 3600)
      stdOk == ~InDst(stdT, z)
      dstOk == InDst(dstT, z)
      t == IF tm.tm_isdst = 0 THEN stdT
           ELSE IF tm.tm_isdst > 0
             THEN (IF z.hasDst \/ hour THEN dstT ELSE stdT)
           ELSE IF ~z.hasDst THEN stdT
           ELSE IF dstOk /\ stdOk THEN (IF guess THEN dstT ELSE stdT)
           ELSE IF dstOk THEN dstT
           ELSE stdT
  IN t

mktime(tm, rule, guess, hour, bits) ==
  LET t == mktime_resolve(tm, rule, guess, hour)
  IN IF Representable(t, bits) THEN t ELSE MinusOne

----------------------------------------------------------------------------
(* liquidsoap_mktime.                                                      *)

\* The guess libc keeps for its next mktime: the offset this one found.
mktime_guess(t, rule, guess) == IF t = MinusOne THEN guess ELSE InDst(t, Zone(rule))

\* A slip: the option is read as "Some b -> b, None -> false".
mktime_tm_noauto(_tm) ==
  [tm_sec |-> Int_val(Field(_tm, 0)),
   tm_min |-> Int_val(Field(_tm, 1)),
   tm_hour |-> Int_val(Field(_tm, 2)),
   tm_mday |-> Int_val(Field(_tm, 3)),
   tm_mon |-> Int_val(Field(_tm, 4)),
   tm_year |-> Int_val(Field(_tm, 5)),
   tm_wday |-> 0,
   tm_yday |-> 0,
   tm_isdst |-> IF Field(_tm, 6) = Val_int(0) THEN 0
                ELSE Bool_val(Field(Field(_tm, 6), 0))]

\* A slip: the hour is forced into 0..23 before the conversion.
mktime_tm_clamped(_tm) ==
  LET h == Int_val(Field(_tm, 2)) IN
  [tm_sec |-> Int_val(Field(_tm, 0)),
   tm_min |-> Int_val(Field(_tm, 1)),
   tm_hour |-> IF h > 23 THEN 23 ELSE IF h < 0 THEN 0 ELSE h,
   tm_mday |-> Int_val(Field(_tm, 3)),
   tm_mon |-> Int_val(Field(_tm, 4)),
   tm_year |-> Int_val(Field(_tm, 5)),
   tm_wday |-> 0,
   tm_yday |-> 0,
   tm_isdst |-> IF Field(_tm, 6) = Val_int(0) THEN -1
                ELSE Bool_val(Field(Field(_tm, 6), 0))]

\* struct tm as liquidsoap_mktime fills it from the OCaml record _tm.
mktime_tm(_tm) ==
  [tm_sec |-> Int_val(Field(_tm, 0)),
   tm_min |-> Int_val(Field(_tm, 1)),
   tm_hour |-> Int_val(Field(_tm, 2)),
   tm_mday |-> Int_val(Field(_tm, 3)),
   tm_mon |-> Int_val(Field(_tm, 4)),
   tm_year |-> Int_val(Field(_tm, 5)),
   tm_wday |-> 0,
   tm_yday |-> 0,
   tm_isdst |-> IF Field(_tm, 6) = Val_int(0) THEN -1
                ELSE Bool_val(Field(Field(_tm, 6), 0))]

\* A slip: the result is not tested, (time_t)-1 is returned as -1.0.
mktime_return_unchecked(time) == caml_copy_double(time)

\* A slip: the failure is raised as an invalid argument.
mktime_return_einval(time) ==
  IF time = MinusOne THEN unix_error("EINVAL", "mktime", Nothing)
  ELSE caml_copy_double(time)

\* What the primitive gives its caller for the time_t it got.
mktime_return(time) ==
  IF time = MinusOne THEN unix_error("ERANGE", "mktime", Nothing)
  ELSE caml_copy_double(time)

\* The whole of liquidsoap_mktime as a function of its argument and of the
\* library state it runs in.
liquidsoap_mktime_value(_tm, rule, guess, hour, bits) ==
  mktime_return(mktime(mktime_tm(_tm), rule, guess, hour, bits))

liquidsoap_mktime(inputs) ==
  /\ ret = NoRet
  /\ \E _tm \in inputs :
    /\ tzset
    /\ mk_in' = _tm
    /\ tm_arg' = mktime_tm(_tm)
    /\ time_res' = mktime(tm_arg', tzrule', lastDst, dstHour, timeBits)
    /\ lastDst' = mktime_guess(time_res', tzrule', lastDst)
    /\ attempts' = 1
    /\ ret' = mktime_return(time_res')
    /\ UNCHANGED <<localeVars, tzconf, platformVars, held>>

----------------------------------------------------------------------------
(* The LocalTimeSpec values callers pass (Unix.tm fields and a bool option). *)

None == Val_int(0)
Some(b) == Block(<<Val_bool(b)>>)
DstFlags == {None, Some(FALSE), Some(TRUE)}

LocalTimeSpec(sec, min, hour, mday, mon, year, dst) ==
  Block(<<Val_int(sec), Val_int(min), Val_int(hour), Val_int(mday),
          Val_int(mon), Val_int(year), dst>>)

\* How far past the end of its range a field may lie.
MaxRoll == 1

Secs == {0, 59} \cup {59 + k : k \in 1..MaxRoll}
Mins == {0, 30, 59}
Hours == {0, 2, 23} \cup {24 + k : k \in 1..MaxRoll}
Mdays == {1, 31} \cup {31 + k : k \in 1..MaxRoll}
Mons == {0, 3, 9, 11} \cup {0 - k : k \in 1..MaxRoll}
Years == {69, 70, 138}

Inputs ==
  {LocalTimeSpec(sec, min, hour, mday, mon, year, dst) :
     sec \in Secs, min \in Mins, hour \in Hours, mday \in Mdays,
     mon \in Mons, year \in Years, dst \in DstFlags}

FewInputs ==
  {LocalTimeSpec(0, 0, 0, 1, 0, 70, dst) : dst \in DstFlags}

----------------------------------------------------------------------------
(* Specifications.                                                         *)

InitLocaleState ==
  /\ env \in [EnvNames -> EnvValues]
  /\ locale \in [Categories -> Installed]
  /\ localeForced = FALSE
  /\ since = {}

InitNoLocale ==
  /\ env = [n \in EnvNames |-> Unset]
  /\ locale = [c \in Categories |-> "C"]
  /\ localeForced = FALSE
  /\ since = {}

InitTimeState ==
  /\ tzconf \in Zones
  /\ tzrule \in Zones \cup {Startup}
  /\ timezone = IF tzrule = Startup THEN StartupTimezone ELSE tzset_timezone(tzrule)
  /\ tzname = IF tzrule = Startup THEN StartupTzname ELSE tzset_tzname(tzrule)
  /\ lastDst \in BOOLEAN
  /\ dstHour \in BOOLEAN
  /\ timeBits \in {32, 64}

InitNoTime ==
  /\ tzconf = ZoneUTC
  /\ tzrule = Startup
  /\ timezone = StartupTimezone
  /\ tzname = StartupTzname
  /\ lastDst = FALSE
  /\ dstHour = TRUE
  /\ timeBits = 64

InitCaller ==
  /\ mk_in = NoRet
  /\ tm_arg = NoRet
  /\ time_res = NoRet
  /\ attempts = 0
  /\ ret = NoRet
  /\ held = NoRet

InitLocale == InitLocaleState /\ InitNoTime /\ InitCaller
NextLocale ==
  \/ liquidsoap_set_locale
  \/ OtherSetlocale
  \/ OtherSetenv
  \/ Consume
SpecLocale == InitLocale /\ [][NextLocale]_vars

InitTimezone == InitNoLocale /\ InitTimeState /\ InitCaller
NextTimezone ==
  \/ ChangeTimezone
  \/ OtherTzset
  \/ liquidsoap_get_timezone
  \/ liquidsoap_get_timezone_by_name
  \/ liquidsoap_mktime(FewInputs)
  \/ Consume
SpecTimezone == InitTimezone /\ [][NextTimezone]_vars

InitMktime == InitNoLocale /\ InitTimeState /\ InitCaller
NextMktime ==
  \/ ChangeTimezone
  \/ liquidsoap_mktime(Inputs)
  \/ Consume
SpecMktime == InitMktime /\ [][NextMktime]_vars

----------------------------------------------------------------------------
(* Calendar operators the properties are stated with.                      *)

\* The six calendar fields of a LocalTimeSpec, as the caller wrote them.
FieldsOf(_tm) == [i \in 1..6 |-> Int_val(Field(_tm, i - 1))]
FlagOf(_tm) == Field(_tm, 6)

\* Calendar normalisation by rolling each overflow into the next field:
\* seconds into minutes, minutes into hours, hours into days, months into
\* years, then days across the month ends.
RECURSIVE RollDays(_, _, _)
RollDays(y, m, d) ==
  IF d < 1
    THEN LET py == IF m = 0 THEN y - 1 ELSE y
             pm == IF m = 0 THEN 11 ELSE m - 1
         IN RollDays(py, pm, d + DaysInMonth(py, pm))
  ELSE IF d > DaysInMonth(y, m)
    THEN RollDays(IF m = 11 THEN y + 1 ELSE y, IF m = 11 THEN 0 ELSE m + 1,
                  d - DaysInMonth(y, m))
  ELSE <<y, m, d>>

Normalized(f) ==
  LET min1 == f[2] + f[1] \div 60
      hour1 == f[3] + min1 \div 60
      ymd == RollDays(1900 + f[6] + f[5] \div 12, f[5] % 12, f[4] + hour1 \div 24)
  IN <<f[1] % 60, min1 % 60, hour1 % 24, ymd[3], ymd[2], ymd[1] - 1900>>

NormalizedSpec(_tm) ==
  LET n == Normalized(FieldsOf(_tm))
  IN LocalTimeSpec(n[1], n[2], n[3], n[4], n[5], n[6], FlagOf(_tm))

InRange(f) ==
  /\ f[1] \in 0..59 /\ f[2] \in 0..59 /\ f[3] \in 0..23
  /\ f[5] \in 0..11 /\ f[4] \in 1..DaysInMonth(1900 + f[6], f[5])

\* The UTC calendar fields of an instant (gmtime).
CalendarOf(t) ==
  LET y == YearOfDay(t.d)
      yday == t.d - DaysBeforeYear(y)
      m == CHOOSE k \in 0..11 :
             DaysBeforeMonth(y, k) <= yday /\ yday < DaysBeforeMonth(y, k) + DaysInMonth(y, k)
  IN <<t.s % 60, (t.s \div 60) % 60, t.s \div 3600,
       yday - DaysBeforeMonth(y, m) + 1, m, y - 1900>>

\* The instant the six fields denote when read as UTC.
UtcInstant(f) ==
  TimeT(DaysBeforeYear(1900 + f[6] + f[5] \div 12)
          + DaysBeforeMonth(1900 + f[6] + f[5] \div 12, f[5] % 12) + f[4] - 1,
        f[3] * 3600 + f[2] * 60 + f[1])

\* A call of liquidsoap_mktime has returned and its result is with the caller.
MktimeReturned == mk_in # NoRet

AllC == \A c \in Categories : locale[c] = "C"

----------------------------------------------------------------------------
(* Properties.                                                             *)

\* C1: whatever LANG, LC_ALL and the live locale were, when
\* liquidsoap_set_locale returns LANG and LC_ALL are both "C" and every
\* locale category is "C".
C1_LocaleForced ==
  ret = Val_unit =>
    /\ env["LANG"] = "C"
    /\ env["LC_ALL"] = "C"
    /\ AllC

\* C1 happens: the call has returned in a process that inherited a French
\* environment, of which the category variable is still there.
C1_Witness ==
  /\ ret = Val_unit
  /\ env["LC_NUMERIC"] = "fr_FR"
  /\ env["LC_CTYPE"] = "xx_XX"
  /\ AllC

C3_FlagAndFields ==
  MktimeReturned =>
    /\ FlagOf(mk_in) = None => tm_arg.tm_isdst = -1
    /\ FlagOf(mk_in) = Some(FALSE) => tm_arg.tm_isdst = 0
    /\ FlagOf(mk_in) = Some(TRUE) => tm_arg.tm_isdst = 1
    /\ <<tm_arg.tm_sec, tm_arg.tm_min, tm_arg.tm_hour, tm_arg.tm_mday,
         tm_arg.tm_mon, tm_arg.tm_year>> = FieldsOf(mk_in)
    /\ (ret.k = "dbl" /\ FlagOf(mk_in) = Some(FALSE)) =>
         LET u == UtcInstant(FieldsOf(mk_in))
         IN ret.d = TimeT(u.d, u.s + Zone(tzconf).west)

\* C3 happens: a StandardTime call on a host five hours west of UTC.
C3_Witness ==
  /\ MktimeReturned
  /\ FlagOf(mk_in) = Some(FALSE)
  /\ tzconf = ZoneEST
  /\ FieldsOf(mk_in) = <<0, 0, 0, 1, 0, 70>>
  /\ ret = caml_copy_double(TimeT(0, 18000))

\* C4: no input is rejected for a field out of range: what the call gave
\* (a value or the error) is what a call made next, under the same timezone
\* rules, gives for the calendar-normalised fields with the same flag.
C4_Normalizes ==
  MktimeReturned =>
    ret = liquidsoap_mktime_value(NormalizedSpec(mk_in), tzrule, lastDst,
                                  dstHour, timeBits)

\* C4 happens: hour 25, minute 30 on 1 January 1970 gave the value of
\* 2 January 1970, 01:30.
C4_Witness ==
  /\ MktimeReturned
  /\ tzconf = ZoneUTC
  /\ FieldsOf(mk_in) = <<0, 30, 25, 1, 0, 70>>
  /\ FlagOf(mk_in) = Some(FALSE)
  /\ ret = caml_copy_double(TimeT(1, 5400))

\* C5: when mktime reports (time_t)-1 the call raises
\* Unix_error(ERANGE, "mktime", ""), gives no value, and has called mktime
\* once.
C5_RangeError ==
  (MktimeReturned /\ time_res = MinusOne) =>
    /\ ret.k = "exn"
    /\ ret.code = "ERANGE"
    /\ ret.fn = "mktime"
    /\ attempts = 1

\* C5 happens: a date in 2038 that a 32-bit time_t cannot hold.
C5_Witness ==
  /\ MktimeReturned
  /\ timeBits = 32
  /\ FieldsOf(mk_in)[6] = 138
  /\ \A g \in BOOLEAN :
       ~Representable(mktime_resolve(tm_arg, tzrule, g, dstHour), timeBits)
  /\ ret.k = "exn"

C7_FreshOffset ==
  ret.k = "imm" =>
    /\ tzrule = tzconf
    /\ Int_val(ret) = timezone
    /\ Int_val(ret) = Zone(tzconf).west
    /\ tzconf = ZoneEET => Int_val(ret) = -7200
    /\ tzconf = ZoneEST => Int_val(ret) = 18000

\* C7 happens: -7200 on a UTC+2 host that was configured as EST when the
\* caller last asked for the names.
C7_Witness ==
  /\ ret = Val_int(-7200)
  /\ tzconf = ZoneEET
  /\ held # NoRet
  /\ ReadPair(held) = <<"EST", "EST">>

\* C8: the pair liquidsoap_get_timezone_by_name returns is (standard name,
\* daylight name) of the configuration in force at the call, held in OCaml
\* strings of its own, and what the caller reads through a pair it keeps
\* never changes afterwards.
C8_NamesCopied ==
  /\ [](ret.k = "blk" =>
          /\ ReadPair(ret) = <<Zone(tzconf).std, Zone(tzconf).dst>>
          /\ Field(ret, 0).k = "str" /\ Field(ret, 1).k = "str")
  /\ [][(held # NoRet /\ held' = held) => ReadPair(held)' = ReadPair(held)]_vars

\* C8 happens: the caller still reads (CET, CEST) from a pair it kept while
\* the library's buffers hold the names of another zone.
C8_Witness ==
  /\ held # NoRet
  /\ ReadPair(held) = <<"CET", "CEST">>
  /\ tzname = <<"EST", "EST">>
  /\ tzconf = ZoneEST

\* C9 as stated: on a UTC host, for the calendar fields of an instant t that
\* time_t can hold, liquidsoap_mktime returns t (0.0 for the epoch).
C9_UtcRoundTrip ==
  (/\ MktimeReturned
   /\ tzconf = ZoneUTC
   /\ FlagOf(mk_in) # Some(TRUE)
   /\ InRange(FieldsOf(mk_in))
   /\ Representable(UtcInstant(FieldsOf(mk_in)), timeBits)
   /\ CalendarOf(UtcInstant(FieldsOf(mk_in))) = FieldsOf(mk_in))
  => ret = caml_copy_double(UtcInstant(FieldsOf(mk_in)))

\* C10 as stated: liquidsoap_mktime returns a value whenever the local time
\* denotes an instant that time_t can hold (whichever way the platform reads
\* an hour that occurs twice).
C10_ValueWheneverValid ==
  (/\ MktimeReturned
   /\ \A g \in BOOLEAN :
        Representable(mktime_resolve(tm_arg, tzrule, g, dstHour), timeBits))
  => ret.k = "dbl"

====
